---- MODULE Spec2Model ----
(***************************************************************************)
(* Payment Tier Automation: the reconciliation-and-classification pipeline *)
(* of src/app.py (four CSV uploads) and src/app_copy.py (two Mixpanel      *)
(* fetches plus two CSV uploads).  One run of the Streamlit script is a    *)
(* sequence of stages; each stage is one action.                           *)
(*                                                                         *)
(* Representation.  A string is a tuple of one-character strings, so that  *)
(* `"@" in s` and `s.strip()` are computed on the characters.  The three   *)
(* nulls of pandas are kept apart because astype(str) tells them apart:    *)
(* NaN (a CSV hole, an unmatched join), pd.NA (a placeholder column) and   *)
(* None (an unresolved email).  Money is an integer: the spend export's    *)
(* amounts are in mills (1/1000), Amount_per_month (rounded to 2 decimals) *)
(* is in cents.  A date is <<year, month, day>>, NaT is <<>>.              *)
(***************************************************************************)
EXTENDS Integers, Sequences, FiniteSets, TLC

VARIABLES variant, pc, today, payment_api_export, payment_mixpanel_export,
          pipedrive_contacts, unpaid_user_df, pay1, pay2, pay_merged,
          pay_merged_contacts, final_merged, tier_summary, shown, error, resp

vars == <<variant, pc, today, payment_api_export, payment_mixpanel_export,
          pipedrive_contacts, unpaid_user_df, pay1, pay2, pay_merged,
          pay_merged_contacts, final_merged, tier_summary, shown, error, resp>>

(***************************************************************************)
(* Values                                                                  *)
(***************************************************************************)
NaN == <<"NaN">>
NA == <<"pd.NA">>
None == <<"None">>
NaT == <<>>
NumNaN == -999999

IsNull(v) == v \in {NaN, NA, None}

\* str(x): what astype(str) and str() print for each null.
Str(v) ==
  IF v = NaN THEN <<"n", "a", "n">>
  ELSE IF v = NA THEN <<"<", "N", "A", ">">>
  ELSE IF v = None THEN <<"N", "o", "n", "e">>
  ELSE v

\* "@" in s
HasAt(s) == \E i \in 1..Len(s) : s[i] = "@"

\* The characters the model's strings use, in code-point order.
Alphabet ==
  <<" ", "+", "1", "2", "3", "4", "5", "6", "7", "8", "<", ">", "@",
    "A", "D", "E", "F", "I", "N", "U", "a", "b", "c", "d", "e", "f", "i",
    "n", "o", "u", "x">>

CharRank(c) == CHOOSE i \in 1..Len(Alphabet) : Alphabet[i] = c

RECURSIVE StrLess(_, _)
StrLess(s, t) ==
  IF t = <<>> THEN FALSE
  ELSE IF s = <<>> THEN TRUE
  ELSE IF s[1] = t[1] THEN StrLess(Tail(s), Tail(t))
  ELSE CharRank(s[1]) < CharRank(t[1])

\* The keys of a groupby, in the sorted order groupby(...).reset_index() gives.
RECURSIVE SortedKeys(_)
SortedKeys(S) ==
  IF S = {} THEN <<>>
  ELSE LET m == CHOOSE x \in S : \A y \in S : x = y \/ StrLess(x, y)
       IN <<m>> \o SortedKeys(S \ {m})

RECURSIVE SelectRows(_, _)
SelectRows(rows, keep) ==
  IF rows = <<>> THEN <<>>
  ELSE (IF Head(rows) \in keep THEN <<Head(rows)>> ELSE <<>>)
       \o SelectRows(Tail(rows), keep)

Range(seq) == {seq[i] : i \in 1..Len(seq)}

(***************************************************************************)
(* 1. Payment API processing: identity resolution, first/last payment,     *)
(*    months since first payment                                           *)
(***************************************************************************)
PayColumns == {"time", "$email", "distinct_id", "$distinct_id_before_identity"}

\* ResolveEmail with the raw distinct id tried before the pre-identity id.
ResolveEmail_raw_id_first(x) ==
  IF HasAt(Str(x.dollar_email)) THEN x.dollar_email
  ELSE IF HasAt(Str(x.distinct_id)) THEN x.distinct_id
  ELSE IF HasAt(Str(x.distinct_id_before_identity))
       THEN x.distinct_id_before_identity
  ELSE None

\* The lambda of pay["email"]: the first candidate whose str() contains "@".
ResolveEmail(x) ==
  IF HasAt(Str(x.dollar_email)) THEN x.dollar_email
  ELSE IF HasAt(Str(x.distinct_id_before_identity))
       THEN x.distinct_id_before_identity
  ELSE IF HasAt(Str(x.distinct_id)) THEN x.distinct_id
  ELSE None

\* A time cell is <<year, month, day, hour>>, NaN (<<>>) or an unparseable
\* string (<<"bad">>).  pd.to_datetime(...).dt.date keeps the calendar date.
IsTimestamp(t) == Len(t) = 4
ToDate(t) == IF IsTimestamp(t) THEN <<t[1], t[2], t[3]>> ELSE NaT

DateKey(d) == (d[1] * 12 + d[2]) * 31 + d[3]

MinDate(D) ==
  IF D = {} THEN NaT
  ELSE CHOOSE d \in D : \A e \in D : DateKey(d) <= DateKey(e)

MaxDate(D) ==
  IF D = {} THEN NaT
  ELSE CHOOSE d \in D : \A e \in D : DateKey(d) >= DateKey(e)

\* ceil(n / d) for d > 0
CeilDiv(n, d) == -((-n) \div d)

\* months_since_first: ceil(delta_years*12 + delta_months + delta_days/30).
\* app_copy.py returns 0 for NaT; app.py has no such guard (the caller
\* decides what the failing ceil(nan) does to the run).
months_since_first(date, now) ==
  IF date = NaT THEN 0
  ELSE CeilDiv(((now[1] - date[1]) * 12 + (now[2] - date[2])) * 30
               + (now[3] - date[3]), 30)

\* The payment table with the placeholder columns of app_copy.py added.
WithPayColumns(t) ==
  [cols |-> PayColumns,
   rows |-> [i \in 1..Len(t.rows) |->
     [time |-> IF "time" \in t.cols THEN t.rows[i].time ELSE NaT,
      dollar_email |-> IF "$email" \in t.cols THEN t.rows[i].dollar_email ELSE NA,
      distinct_id |-> IF "distinct_id" \in t.cols THEN t.rows[i].distinct_id ELSE NA,
      distinct_id_before_identity |->
        IF "$distinct_id_before_identity" \in t.cols
        THEN t.rows[i].distinct_id_before_identity ELSE NA]]]

\* pay: Email and Date per event, the events without an email dropped.
PayEmailDate(rows) ==
  LET all == [i \in 1..Len(rows) |->
                [Email |-> ResolveEmail(rows[i]), Date |-> ToDate(rows[i].time)]]
  IN SelectRows(all, {r \in Range(all) : ~IsNull(r.Email)})

\* pay1: groupby('Email')['Date'].agg(min, max), then Duration_Months.
GroupPayments(pay, now) ==
  LET keys == SortedKeys({r.Email : r \in Range(pay)})
      dates(k) == {r.Date : r \in {q \in Range(pay) : q.Email = k}} \ {NaT}
  IN [i \in 1..Len(keys) |->
       [Email |-> keys[i],
        First_Payment |-> MinDate(dates(keys[i])),
        Last_Payment |-> MaxDate(dates(keys[i])),
        Duration_Months |-> months_since_first(MinDate(dates(keys[i])), now)]]

(***************************************************************************)
(* 2. Mixpanel payment summary (the spend export)                          *)
(***************************************************************************)
SpendColumns ==
  {"Email", "A. Payment (all time)", "B. Amount (Year)", "C. Amount (Month)",
   "Workspace"}

\* The spend table with the placeholder columns of app_copy.py added: 0 for
\* a column whose name holds "Amount" or "Payment", pd.NA for the others.
WithSpendColumns(t) ==
  [cols |-> SpendColumns,
   rows |-> [i \in 1..Len(t.rows) |->
     [Email |-> IF "Email" \in t.cols THEN t.rows[i].Email ELSE NA,
      A_Payment_all_time |->
        IF "A. Payment (all time)" \in t.cols
        THEN t.rows[i].A_Payment_all_time ELSE 0,
      B_Amount_Year |->
        IF "B. Amount (Year)" \in t.cols THEN t.rows[i].B_Amount_Year ELSE 0,
      C_Amount_Month |->
        IF "C. Amount (Month)" \in t.cols THEN t.rows[i].C_Amount_Month ELSE 0,
      Workspace |-> IF "Workspace" \in t.cols THEN t.rows[i].Workspace ELSE NA]]]

\* 'sum' skips NaN.
RECURSIVE SumSeq(_)
SumSeq(xs) ==
  IF xs = <<>> THEN 0
  ELSE (IF Head(xs) = NumNaN THEN 0 ELSE Head(xs)) + SumSeq(Tail(xs))

\* 'first': the first non-null value of the group, NaN when there is none.
RECURSIVE FirstNonNull(_)
FirstNonNull(xs) ==
  IF xs = <<>> THEN NaN
  ELSE IF IsNull(Head(xs)) THEN FirstNonNull(Tail(xs))
  ELSE Head(xs)

\* pay2: groupby('Email').agg(sum, sum, sum, first).reset_index(); groupby
\* drops the rows whose key is null.
GroupSpend(rows) ==
  LET keys == SortedKeys({r.Email : r \in Range(rows)} \ {NaN, NA, None})
      grp(k) == SelectRows(rows, {r \in Range(rows) : r.Email = k})
      col(g, f) == [j \in 1..Len(g) |-> g[j][f]]
  IN [i \in 1..Len(keys) |->
       [Email |-> keys[i],
        A_Payment_all_time |-> SumSeq(col(grp(keys[i]), "A_Payment_all_time")),
        B_Amount_Year |-> SumSeq(col(grp(keys[i]), "B_Amount_Year")),
        C_Amount_Month |-> SumSeq(col(grp(keys[i]), "C_Amount_Month")),
        Workspace |-> FirstNonNull(col(grp(keys[i]), "Workspace"))]]

(***************************************************************************)
(* Merge of pay1 and pay2, Amount_per_month                                *)
(***************************************************************************)
\* One right row joined with one left row of pay1.
JoinPay(l, r) ==
  [Email |-> r.Email, First_Payment |-> l.First_Payment,
   Last_Payment |-> l.Last_Payment, Duration_Months |-> l.Duration_Months,
   A_Payment_all_time |-> r.A_Payment_all_time,
   B_Amount_Year |-> r.B_Amount_Year, C_Amount_Month |-> r.C_Amount_Month,
   Workspace |-> r.Workspace]

NoPayFacts ==
  [First_Payment |-> NaT, Last_Payment |-> NaT, Duration_Months |-> NumNaN]

\* MergeRight as an inner join: the right rows without a match are dropped.
RECURSIVE MergeRight_inner(_, _)
MergeRight_inner(left, right) ==
  IF right = <<>> THEN <<>>
  ELSE LET r == Head(right)
           m == SelectRows(left, {l \in Range(left) : l.Email = r.Email})
       IN [j \in 1..Len(m) |-> JoinPay(m[j], r)]
          \o MergeRight_inner(left, Tail(right))

\* pd.merge(pay1, pay2, on='Email', how='right'): every right row, once per
\* matching left row, or once with nulls when no left row matches.
RECURSIVE MergeRight(_, _)
MergeRight(left, right) ==
  IF right = <<>> THEN <<>>
  ELSE LET r == Head(right)
           m == SelectRows(left, {l \in Range(left) : l.Email = r.Email})
       IN (IF m = <<>> THEN <<JoinPay(NoPayFacts, r)>>
           ELSE [j \in 1..Len(m) |-> JoinPay(m[j], r)])
          \o MergeRight(left, Tail(right))

\* app_copy.py: Duration_Months.fillna(0).astype(int); app.py keeps the NaN.
FillDuration(v, d) == IF v = "app_copy" /\ d = NumNaN THEN 0 ELSE d

\* Amount_per_month without the division by Duration_Months.
Amount_per_month_undivided(duration, amount, up) ==
  LET q == amount \div 10
      r == amount % 10
  IN IF 2 * r < 10 THEN q
     ELSE IF 2 * r > 10 THEN q + 1
     ELSE IF up THEN q + 1 ELSE q

\* np.where(Duration_Months > 0, A / Duration_Months, A).round(2), in cents
\* from an amount in mills.  A value exactly half way between two cents is
\* rounded by the binary floating-point value, which may fall either side:
\* `up` is the side taken.
Amount_per_month(duration, amount, up) ==
  LET den == IF duration # NumNaN /\ duration > 0 THEN 10 * duration ELSE 10
      q == amount \div den
      r == amount % den
  IN IF 2 * r < den THEN q
     ELSE IF 2 * r > den THEN q + 1
     ELSE IF up THEN q + 1 ELSE q

(***************************************************************************)
(* Tier function                                                           *)
(***************************************************************************)
\* A comparison with NaN is False.
GE(x, n) == x # NumNaN /\ x >= n
GT(x, n) == x # NumNaN /\ x > n

\* assign_tier with the VIP amount threshold strict.
assign_tier_strict_vip(duration, amount) ==
  IF GE(duration, 24) /\ GT(amount, 3000) THEN "VIP"
  ELSE IF \/ GE(duration, 12) /\ GT(amount, 12000)
          \/ GE(duration, 6) /\ GT(amount, 18000)
          \/ GE(duration, 3) /\ GT(amount, 30000) THEN "Platinum"
  ELSE IF \/ GE(duration, 6) /\ GT(amount, 8000)
          \/ GE(duration, 3) /\ GT(amount, 12000) THEN "Gold"
  ELSE IF \/ GE(duration, 6) /\ GE(amount, 6000)
          \/ GE(duration, 3) /\ GT(amount, 8000) THEN "Silver"
  ELSE "Bronze"

\* assign_tier with the VIP amount comparison turned round (amount <= 30).
assign_tier_vip_amount_flipped(duration, amount) ==
  IF GE(duration, 24) /\ amount # NumNaN /\ amount <= 3000 THEN "VIP"
  ELSE IF \/ GE(duration, 12) /\ GT(amount, 12000)
          \/ GE(duration, 6) /\ GT(amount, 18000)
          \/ GE(duration, 3) /\ GT(amount, 30000) THEN "Platinum"
  ELSE IF \/ GE(duration, 6) /\ GT(amount, 8000)
          \/ GE(duration, 3) /\ GT(amount, 12000) THEN "Gold"
  ELSE IF \/ GE(duration, 6) /\ GE(amount, 6000)
          \/ GE(duration, 3) /\ GT(amount, 8000) THEN "Silver"
  ELSE "Bronze"

\* assign_tier with the last Platinum rule on the amount alone (amount > 300).
assign_tier_amount_only(duration, amount) ==
  IF GE(duration, 24) /\ GE(amount, 3000) THEN "VIP"
  ELSE IF \/ GE(duration, 12) /\ GT(amount, 12000)
          \/ GE(duration, 6) /\ GT(amount, 18000)
          \/ GT(amount, 30000) THEN "Platinum"
  ELSE IF \/ GE(duration, 6) /\ GT(amount, 8000)
          \/ GE(duration, 3) /\ GT(amount, 12000) THEN "Gold"
  ELSE IF \/ GE(duration, 6) /\ GE(amount, 6000)
          \/ GE(duration, 3) /\ GT(amount, 8000) THEN "Silver"
  ELSE "Bronze"

\* assign_tier: duration in months, amount in cents.
assign_tier(duration, amount) ==
  IF GE(duration, 24) /\ GE(amount, 3000) THEN "VIP"
  ELSE IF \/ GE(duration, 12) /\ GT(amount, 12000)
          \/ GE(duration, 6) /\ GT(amount, 18000)
          \/ GE(duration, 3) /\ GT(amount, 30000) THEN "Platinum"
  ELSE IF \/ GE(duration, 6) /\ GT(amount, 8000)
          \/ GE(duration, 3) /\ GT(amount, 12000) THEN "Gold"
  ELSE IF \/ GE(duration, 6) /\ GE(amount, 6000)
          \/ GE(duration, 3) /\ GT(amount, 8000) THEN "Silver"
  ELSE "Bronze"

(***************************************************************************)
(* 3. Pipedrive contacts merge                                             *)
(***************************************************************************)
ContactColumns == {"Email", "Phone", "Phone_Country_Name", "Full_Name"}

\* s.strip()
RECURSIVE LStrip(_)
LStrip(s) == IF s # <<>> /\ Head(s) = " " THEN LStrip(Tail(s)) ELSE s

RECURSIVE RStrip(_)
RStrip(s) ==
  IF s # <<>> /\ s[Len(s)] = " " THEN RStrip(SubSeq(s, 1, Len(s) - 1)) ELSE s

Strip(s) == RStrip(LStrip(s))

\* Series.str.strip(): a null stays null.
StrStrip(v) == IF IsNull(v) THEN v ELSE Strip(v)

\* drop_duplicates(subset='Email'): the first row of each Email is kept.
RECURSIVE DropDuplicatesFrom(_, _)
DropDuplicatesFrom(rows, seen) ==
  IF rows = <<>> THEN <<>>
  ELSE IF Head(rows).Email \in seen THEN DropDuplicatesFrom(Tail(rows), seen)
  ELSE <<Head(rows)>> \o DropDuplicatesFrom(Tail(rows), seen \cup {Head(rows).Email})

DropDuplicates(rows) == DropDuplicatesFrom(rows, {})

\* The contacts as merged: Email stripped (app_copy.py: astype(str) first),
\* Phone_Country_Name stripped (app.py) or a pd.NA placeholder when the
\* column is absent (app_copy.py), duplicates of Email dropped.
PrepareContacts(v, t) ==
  DropDuplicates(
    [i \in 1..Len(t.rows) |->
      [Email |-> IF v = "app" THEN StrStrip(t.rows[i].Email)
                 ELSE Strip(Str(t.rows[i].Email)),
       Phone |-> t.rows[i].Phone,
       Phone_Country_Name |->
         IF "Phone_Country_Name" \notin t.cols THEN NA
         ELSE IF v = "app" THEN StrStrip(t.rows[i].Phone_Country_Name)
         ELSE t.rows[i].Phone_Country_Name,
       Full_Name |-> t.rows[i].Full_Name]])

\* pd.merge(left, right, on='Email', how='left'): every left row, once per
\* matching right row, or once with `nulls` when no right row matches.
RECURSIVE MergeLeft(_, _, _)
MergeLeft(left, right, nulls) ==
  IF left = <<>> THEN <<>>
  ELSE LET l == Head(left)
           m == SelectRows(right, {r \in Range(right) : r.Email = l.Email})
       IN (IF m = <<>> THEN <<l @@ nulls>>
           ELSE [j \in 1..Len(m) |-> l @@ m[j]])
          \o MergeLeft(Tail(left), right, nulls)

NoContact == [Phone |-> NaN, Phone_Country_Name |-> NaN, Full_Name |-> NaN]

MergeContacts(merged, contacts) ==
  DropDuplicates(MergeLeft(merged, contacts, NoContact))

(***************************************************************************)
(* 4. Unpaid user merge and phone cleaning                                 *)
(***************************************************************************)
UnpaidColumns == {"$email", "Phone Number", "Phone Number Country"}

\* unpaid_user: the three columns (pd.NA placeholders for the absent ones in
\* app_copy.py), $email renamed to Email, duplicates of Email dropped.
PrepareUnpaid(t) ==
  DropDuplicates(
    [i \in 1..Len(t.rows) |->
      [Email |-> IF "$email" \in t.cols THEN t.rows[i].dollar_email ELSE NA,
       PhoneNumber |->
         IF "Phone Number" \in t.cols THEN t.rows[i].PhoneNumber ELSE NA,
       PhoneNumberCountry |->
         IF "Phone Number Country" \in t.cols
         THEN t.rows[i].PhoneNumberCountry ELSE NA]])

NoUnpaid == [PhoneNumber |-> NaN, PhoneNumberCountry |-> NaN]

undefined_values ==
  { <<>>, <<" ">>, <<" ", " ">>,
    <<"u", "n", "d", "e", "f", "i", "n", "e", "d">>,
    <<"U", "n", "d", "e", "f", "i", "n", "e", "d">>,
    <<"n", "o", "n", "e">>, <<"N", "o", "n", "e">>,
    <<"n", "a", "n">>, <<"N", "a", "N">> }

\* col.astype(str).str.strip().replace(undefined_values, pd.NA)
Clean(v) ==
  LET s == Strip(Str(v))
  IN IF s \in undefined_values THEN NA ELSE s

\* a.fillna(b)
Fillna(a, b) == IF IsNull(a) THEN b ELSE a

\* Phone_Number = 'Phone Number'.fillna('Phone')
Phone_Number(row) == Fillna(Clean(row.PhoneNumber), Clean(row.Phone))

\* Phone_Country = 'Phone_Country_Name'.fillna('Phone Number Country')
Phone_Country(row) ==
  Fillna(Clean(row.Phone_Country_Name), Clean(row.PhoneNumberCountry))

\* One row of the final report: the two reconciled phone fields and the
\* final column selection.  A column the contacts never had is a pd.NA
\* placeholder on every row (app_copy.py).
FinalRow(row, contactCols) ==
  LET r == [row EXCEPT
              !.Phone = IF "Phone" \in contactCols THEN @ ELSE NA,
              !.Full_Name = IF "Full_Name" \in contactCols THEN @ ELSE NA]
  IN [Email |-> r.Email, Full_Name |-> r.Full_Name,
      Phone_Number |-> Phone_Number(r), Phone_Country |-> Phone_Country(r),
      First_Payment |-> r.First_Payment, Last_Payment |-> r.Last_Payment,
      Duration_Months |-> r.Duration_Months,
      A_Payment_all_time |-> r.A_Payment_all_time,
      B_Amount_Year |-> r.B_Amount_Year, C_Amount_Month |-> r.C_Amount_Month,
      Workspace |-> r.Workspace, Amount_per_month |-> r.Amount_per_month,
      Tier |-> r.Tier]

FinalMerged(merged, unpaid, contactCols) ==
  LET m == MergeLeft(merged, unpaid, NoUnpaid)
  IN [i \in 1..Len(m) |-> FinalRow(m[i], contactCols)]

(***************************************************************************)
(* Tier summary                                                            *)
(***************************************************************************)
tier_order == <<"VIP", "Platinum", "Gold", "Silver", "Bronze">>

\* The order groupby('Tier') leaves: the labels sorted as strings.
SortedTiers == <<"Bronze", "Gold", "Platinum", "Silver", "VIP">>

\* n / d rounded to the nearest integer, halves to even
RoundDiv(n, d) ==
  LET q == n \div d
      r == n % d
  IN IF 2 * r < d THEN q
     ELSE IF 2 * r > d THEN q + 1
     ELSE IF q % 2 = 0 THEN q ELSE q + 1

\* groupby('Tier').agg(Number_of_Users=('Email', 'count')).reset_index(),
\* then Percentage (in hundredths of a percent).
GroupTiers(rows) ==
  LET present == SelectRows(SortedTiers, {r.Tier : r \in Range(rows)})
      count(t) == Cardinality({i \in 1..Len(rows) :
                                 rows[i].Tier = t /\ ~IsNull(rows[i].Email)})
      total == Cardinality({i \in 1..Len(rows) : ~IsNull(rows[i].Email)})
  IN [i \in 1..Len(present) |->
       [Tier |-> present[i], Number_of_Users |-> count(present[i]),
        Percentage |-> IF total = 0 THEN NumNaN
                       ELSE RoundDiv(count(present[i]) * 10000, total)]]

\* pd.Categorical(..., categories=tier_order, ordered=True), sort_values
RECURSIVE SortByCategory(_, _)
SortByCategory(rows, order) ==
  IF order = <<>> THEN <<>>
  ELSE SelectRows(rows, {r \in Range(rows) : r.Tier = Head(order)})
       \o SortByCategory(rows, Tail(order))

\* TierSummary without the categorical sort: the rows stay as grouped.
TierSummary_as_grouped(rows) == GroupTiers(rows)

TierSummary(rows) == SortByCategory(GroupTiers(rows), tier_order)

(***************************************************************************)
(* The run: input acquisition                                              *)
(***************************************************************************)
Variants == {"app", "app_copy"}

\* Before an input is acquired its variable holds no rows.
NoPayments == [cols |-> PayColumns, rows |-> <<>>]
NoSpend == [cols |-> SpendColumns, rows |-> <<>>]
NoContacts == [cols |-> ContactColumns, rows |-> <<>>]
NoUnpaid_df == [cols |-> UnpaidColumns, rows |-> <<>>]

\* The order in which the script acquires its inputs, and the stage after.
NextInput(v, src) ==
  IF v = "app"
  THEN CASE src = "payment_api" -> "payment_mixpanel"
         [] src = "payment_mixpanel" -> "pipedrive"
         [] src = "pipedrive" -> "unpaid"
         [] src = "unpaid" -> "pay"
  ELSE CASE src = "payment_api" -> "unpaid"
         [] src = "unpaid" -> "payment_mixpanel"
         [] src = "payment_mixpanel" -> "pipedrive"
         [] src = "pipedrive" -> "pay"

\* An exception: app_copy.py catches it, reports it and calls st.stop();
\* app.py does not catch it and the script run dies.
Raised(v) == IF v = "app" THEN "crashed" ELSE "stopped"

\* fetch_mixpanel_event (app_copy.py): the request raises, or answers with a
\* status.  pd.read_csv (app.py, and the two uploads of app_copy.py): the
\* file is read (written here as status 200) or the read raises.
FetchOutcomes ==
  { [raised |-> FALSE, status |-> 200], [raised |-> FALSE, status |-> 401],
    [raised |-> FALSE, status |-> 500], [raised |-> TRUE, status |-> 0] }

ReadOutcomes ==
  { [raised |-> FALSE, status |-> 200], [raised |-> TRUE, status |-> 0] }

Outcomes(v, src) ==
  IF v = "app_copy" /\ src \in {"payment_api", "unpaid"}
  THEN FetchOutcomes ELSE ReadOutcomes

NoResponse == [raised |-> FALSE, status |-> 200]

\* Delivered with the status of the response ignored.
Delivered_any_status(o) == ~o.raised

\* The acquisition delivers its table: nothing raised and, for a fetch,
\* resp.status_code == 200.
Delivered(o) == ~o.raised /\ o.status = 200

\* The number of required columns the acquired inputs lack.
AbsentCount ==
  Cardinality(PayColumns \ payment_api_export.cols)
  + Cardinality(SpendColumns \ payment_mixpanel_export.cols)
  + Cardinality(ContactColumns \ pipedrive_contacts.cols)
  + Cardinality(UnpaidColumns \ unpaid_user_df.cols)

MaxAbsent == 1
MaxRows == 2

Min(a, b) == IF a < b THEN a ELSE b

\* The tables an acquisition may deliver: the first rows of `base`, with at
\* most `budget` of the required columns absent.
Deliverable(base, cols, budget) ==
  { [cols |-> cols \ A, rows |-> SubSeq(base, 1, n)] :
      A \in {S \in SUBSET cols : Cardinality(S) <= budget},
      n \in 0..Min(MaxRows, Len(base)) }

\* Sample cell values.
A_X == <<"a", "@", "x">>
B_X == <<"b", "@", "x">>
C_X == <<"c", "@", "x">>
D_X == <<"d", "@", "x">>
U1 == <<"u", "1">>
P1234 == <<"+", "1", "2", "3", "4">>
P5678 == <<"+", "5", "6", "7", "8">>
Undefined_lc == <<"u", "n", "d", "e", "f", "i", "n", "e", "d">>
NP == <<"N", "P">>
AE == <<"A", "E">>
Ann == <<"A", "n", "n">>
W1 == <<"w", "1">>

\* pd.Timestamp.today() of the run.
Today0 == <<2026, 3, 15>>
Todays == {Today0}

PayEvent(t, e, b, d) ==
  [time |-> t, dollar_email |-> e, distinct_id_before_identity |-> b,
   distinct_id |-> d]

SpendRow(e, a) ==
  [Email |-> e, A_Payment_all_time |-> a, B_Amount_Year |-> 0,
   C_Amount_Month |-> 0, Workspace |-> W1]

ContactRow(e, p, c) ==
  [Email |-> e, Phone |-> p, Phone_Country_Name |-> c, Full_Name |-> Ann]

UnpaidRow(e, p, c) ==
  [dollar_email |-> e, PhoneNumber |-> p, PhoneNumberCountry |-> c]

\* The rows the acquisitions of a whole run deliver a prefix of.
BasePayments ==
  << PayEvent(<<2025, 9, 10, 9>>, A_X, U1, U1),
     PayEvent(<<2026, 1, 20, 0>>, NaN, U1, B_X),
     PayEvent(<<2024, 3, 1, 23>>, U1, A_X, U1) >>

BaseSpend ==
  << SpendRow(A_X, 600000), SpendRow(C_X, 45000), SpendRow(A_X, 10005) >>

BaseContacts ==
  << ContactRow(A_X, P1234, NP), ContactRow(C_X, NaN, NaN),
     ContactRow(<<" ">> \o A_X, P5678, AE) >>

BaseUnpaid ==
  << UnpaidRow(A_X, P5678, AE), UnpaidRow(C_X, P5678, NaN),
     UnpaidRow(A_X, NaN, NP) >>

inputs ==
  <<payment_api_export, payment_mixpanel_export, pipedrive_contacts,
    unpaid_user_df>>

derived ==
  <<pay1, pay2, pay_merged, pay_merged_contacts, final_merged, tier_summary>>

\* The presence check of the uploads: st.error and st.stop() when one is
\* missing (all four files in app.py, the two manual uploads in app_copy.py).
ValidateUploads ==
  /\ pc = "start"
  /\ \E uploaded \in BOOLEAN :
       /\ pc' = IF uploaded THEN "payment_api" ELSE "stopped"
       /\ error' = IF uploaded THEN error ELSE "upload"
  /\ UNCHANGED <<variant, today, inputs, derived, shown, resp>>

AcquirePaymentAPI ==
  /\ pc = "payment_api"
  /\ \E o \in Outcomes(variant, "payment_api") :
     \E t \in Deliverable(BasePayments, PayColumns, MaxAbsent - AbsentCount) :
       /\ resp' = o
       /\ IF Delivered(o)
          THEN /\ payment_api_export' = t
               /\ pc' = NextInput(variant, "payment_api")
               /\ error' = error
          ELSE /\ payment_api_export' = payment_api_export
               /\ pc' = Raised(variant)
               /\ error' = "payment_api"
  /\ UNCHANGED <<variant, today, payment_mixpanel_export, pipedrive_contacts,
                 unpaid_user_df, derived, shown>>

AcquireUnpaid ==
  /\ pc = "unpaid"
  /\ \E o \in Outcomes(variant, "unpaid") :
     \E t \in Deliverable(BaseUnpaid, UnpaidColumns, MaxAbsent - AbsentCount) :
       /\ resp' = o
       /\ IF Delivered(o)
          THEN /\ unpaid_user_df' = t
               /\ pc' = NextInput(variant, "unpaid")
               /\ error' = error
          ELSE /\ unpaid_user_df' = unpaid_user_df
               /\ pc' = Raised(variant)
               /\ error' = "unpaid"
  /\ UNCHANGED <<variant, today, payment_api_export, payment_mixpanel_export,
                 pipedrive_contacts, derived, shown>>

AcquirePaymentMixpanel ==
  /\ pc = "payment_mixpanel"
  /\ \E o \in Outcomes(variant, "payment_mixpanel") :
     \E t \in Deliverable(BaseSpend, SpendColumns, MaxAbsent - AbsentCount) :
       /\ resp' = o
       /\ IF Delivered(o)
          THEN /\ payment_mixpanel_export' = t
               /\ pc' = NextInput(variant, "payment_mixpanel")
               /\ error' = error
          ELSE /\ payment_mixpanel_export' = payment_mixpanel_export
               /\ pc' = Raised(variant)
               /\ error' = "payment_mixpanel"
  /\ UNCHANGED <<variant, today, payment_api_export, pipedrive_contacts,
                 unpaid_user_df, derived, shown>>

AcquirePipedrive ==
  /\ pc = "pipedrive"
  /\ \E o \in Outcomes(variant, "pipedrive") :
     \E t \in Deliverable(BaseContacts, ContactColumns, MaxAbsent - AbsentCount) :
       /\ resp' = o
       /\ IF Delivered(o)
          THEN /\ pipedrive_contacts' = t
               /\ pc' = NextInput(variant, "pipedrive")
               /\ error' = error
          ELSE /\ pipedrive_contacts' = pipedrive_contacts
               /\ pc' = Raised(variant)
               /\ error' = "pipedrive"
  /\ UNCHANGED <<variant, today, payment_api_export, payment_mixpanel_export,
                 unpaid_user_df, derived, shown>>

(***************************************************************************)
(* The run: processing stages                                              *)
(***************************************************************************)
IsBadTime(t) == Len(t) = 1

\* What stops the payment stage before pay1 exists.  Both: apply(axis=1) on
\* a frame without rows returns a frame, and assigning it to pay["email"]
\* raises.  app.py only: a required column is absent (KeyError), or a time
\* is unparseable (pd.to_datetime without errors="coerce").
PaymentStageRaises(v, t) ==
  \/ Len(t.rows) = 0
  \/ v = "app" /\ t.cols # PayColumns
  \/ v = "app" /\ "time" \in t.cols
               /\ \E i \in 1..Len(t.rows) : IsBadTime(t.rows[i].time)

\* app.py: months_since_first has no guard for NaT, ceil(nan) raises.
DurationRaises(v, p1) ==
  v = "app" /\ \E i \in 1..Len(p1) : p1[i].First_Payment = NaT

ProcessPaymentAPI ==
  /\ pc = "pay"
  /\ \E now \in Todays :
       LET t == payment_api_export
           p1 == GroupPayments(PayEmailDate(WithPayColumns(t).rows), now)
       IN IF PaymentStageRaises(variant, t)
          THEN /\ pc' = Raised(variant)
               /\ error' = "pay"
               /\ UNCHANGED <<pay1, today>>
          ELSE IF DurationRaises(variant, p1)
          THEN /\ pc' = Raised(variant)
               /\ error' = "pay"
               /\ today' = now
               /\ pay1' = pay1
          ELSE /\ pc' = "spend"
               /\ error' = error
               /\ today' = now
               /\ pay1' = p1
  /\ UNCHANGED <<variant, inputs, pay2, pay_merged, pay_merged_contacts,
                 final_merged, tier_summary, shown, resp>>

ProcessMixpanel ==
  /\ pc = "spend"
  /\ IF variant = "app" /\ payment_mixpanel_export.cols # SpendColumns
     THEN /\ pc' = Raised(variant)
          /\ error' = "spend"
          /\ pay2' = pay2
     ELSE /\ pc' = "merge"
          /\ error' = error
          /\ pay2' = GroupSpend(WithSpendColumns(payment_mixpanel_export).rows)
  /\ UNCHANGED <<variant, today, inputs, pay1, pay_merged, pay_merged_contacts,
                 final_merged, tier_summary, shown, resp>>

\* pay_merged with Duration_Months filled (app_copy.py) and Amount_per_month.
WithAmountPerMonth(v, m, up) ==
  [i \in 1..Len(m) |->
    LET d == FillDuration(v, m[i].Duration_Months)
    IN [m[i] EXCEPT !.Duration_Months = d]
       @@ [Amount_per_month |->
             Amount_per_month(d, m[i].A_Payment_all_time, up[i])]]

MergePayments ==
  /\ pc = "merge"
  /\ LET m == MergeRight(pay1, pay2)
     IN \E up \in [1..Len(m) -> BOOLEAN] :
          pay_merged' = WithAmountPerMonth(variant, m, up)
  /\ pc' = "tier"
  /\ UNCHANGED <<variant, today, inputs, pay1, pay2, pay_merged_contacts,
                 final_merged, tier_summary, shown, error, resp>>

WithTier(m) ==
  [i \in 1..Len(m) |->
    m[i] @@ [Tier |-> assign_tier(m[i].Duration_Months, m[i].Amount_per_month)]]

\* app.py: on a frame without rows apply(assign_tier, axis=1) returns a
\* frame (assign_tier raises KeyError on the empty probe row) and the
\* assignment to pay_merged['Tier'] raises.
AssignTiers ==
  /\ pc = "tier"
  /\ IF variant = "app" /\ Len(pay_merged) = 0
     THEN /\ pc' = Raised(variant)
          /\ error' = "tier"
          /\ pay_merged' = pay_merged
     ELSE /\ pc' = "contacts"
          /\ error' = error
          /\ pay_merged' = WithTier(pay_merged)
  /\ UNCHANGED <<variant, today, inputs, pay1, pay2, pay_merged_contacts,
                 final_merged, tier_summary, shown, resp>>

\* pipedrive_contacts['Email'] (both) and ['Phone_Country_Name'] (app.py)
\* raise KeyError when the column is absent.
ContactStageRaises(v, t) ==
  \/ "Email" \notin t.cols
  \/ v = "app" /\ "Phone_Country_Name" \notin t.cols

MergePipedrive ==
  /\ pc = "contacts"
  /\ IF ContactStageRaises(variant, pipedrive_contacts)
     THEN /\ pc' = Raised(variant)
          /\ error' = "contacts"
          /\ UNCHANGED <<pipedrive_contacts, pay_merged_contacts>>
     ELSE LET c == PrepareContacts(variant, pipedrive_contacts)
          IN /\ pc' = "final"
             /\ error' = error
             /\ pipedrive_contacts' =
                  [cols |-> pipedrive_contacts.cols \cup {"Phone_Country_Name"},
                   rows |-> c]
             /\ pay_merged_contacts' = MergeContacts(pay_merged, c)
  /\ UNCHANGED <<variant, today, payment_api_export, payment_mixpanel_export,
                 unpaid_user_df, pay1, pay2, pay_merged, final_merged,
                 tier_summary, shown, resp>>

\* app.py: the column selections of unpaid_user, of the phone cleaning and
\* of the final report raise KeyError on an absent column.
FinalStageRaises(v, u, contactCols) ==
  v = "app" /\ (u.cols # UnpaidColumns \/ ~({"Phone", "Full_Name"} \subseteq contactCols))

MergeUnpaid ==
  /\ pc = "final"
  /\ IF FinalStageRaises(variant, unpaid_user_df, pipedrive_contacts.cols)
     THEN /\ pc' = Raised(variant)
          /\ error' = "final"
          /\ final_merged' = final_merged
     ELSE /\ pc' = "summary"
          /\ error' = error
          /\ final_merged' =
               FinalMerged(pay_merged_contacts, PrepareUnpaid(unpaid_user_df),
                           pipedrive_contacts.cols)
  /\ UNCHANGED <<variant, today, inputs, pay1, pay2, pay_merged,
                 pay_merged_contacts, tier_summary, shown, resp>>

SummariseTiers ==
  /\ pc = "summary"
  /\ tier_summary' = TierSummary(final_merged)
  /\ pc' = "output"
  /\ UNCHANGED <<variant, today, inputs, pay1, pay2, pay_merged,
                 pay_merged_contacts, final_merged, shown, error, resp>>

\* st.dataframe(tier_summary), st.dataframe(final_merged), st.download_button
Output ==
  /\ pc = "output"
  /\ shown' = {"tier_summary", "final_merged", "download"}
  /\ pc' = "done"
  /\ UNCHANGED <<variant, today, inputs, derived, error, resp>>

Process ==
  \/ ProcessPaymentAPI
  \/ ProcessMixpanel
  \/ MergePayments
  \/ AssignTiers
  \/ MergePipedrive
  \/ MergeUnpaid
  \/ SummariseTiers
  \/ Output

(***************************************************************************)
(* A whole run, from the button to the download                            *)
(***************************************************************************)
Fresh ==
  /\ today = NaT
  /\ pay1 = <<>>
  /\ pay2 = <<>>
  /\ pay_merged = <<>>
  /\ pay_merged_contacts = <<>>
  /\ final_merged = <<>>
  /\ tier_summary = <<>>
  /\ shown = {}
  /\ error = ""
  /\ resp = NoResponse

Init ==
  /\ variant \in Variants
  /\ pc = "start"
  /\ payment_api_export = NoPayments
  /\ payment_mixpanel_export = NoSpend
  /\ pipedrive_contacts = NoContacts
  /\ unpaid_user_df = NoUnpaid_df
  /\ Fresh

Next ==
  \/ ValidateUploads
  \/ AcquirePaymentAPI
  \/ AcquireUnpaid
  \/ AcquirePaymentMixpanel
  \/ AcquirePipedrive
  \/ Process

Spec == Init /\ [][Next]_vars

(***************************************************************************)
(* Runs that start with the four inputs already acquired, drawn from       *)
(* bounded sets                                                            *)
(***************************************************************************)
Table(cols, rows) == [cols |-> cols, rows |-> rows]

SeqsUpTo(S, n) == UNION {[1..k -> S] : k \in 0..n}

Loaded(P, S, C, U) ==
  /\ variant \in Variants
  /\ pc = "pay"
  /\ payment_api_export \in P
  /\ payment_mixpanel_export \in S
  /\ pipedrive_contacts \in C
  /\ unpaid_user_df \in U
  /\ Fresh

\* The payment stage alone: every mix of the three identity candidates, with
\* an early, a future, a missing and an unparseable time.
MaxEvents == 2

EventTimes == {<<2025, 9, 10, 9>>, <<2026, 6, 20, 0>>, NaT, <<"bad">>}

PayEvents ==
  { PayEvent(t, e, b, d) :
      t \in EventTimes, e \in {NaN, A_X}, b \in {U1, B_X}, d \in {U1, A_X} }

InitPay ==
  Loaded({Table(PayColumns, r) : r \in SeqsUpTo(PayEvents, MaxEvents)},
         {Table(SpendColumns, BaseSpend)},
         {Table(ContactColumns, BaseContacts)},
         {Table(UnpaidColumns, BaseUnpaid)})

SpecPay == InitPay /\ [][ProcessPaymentAPI]_vars

(***************************************************************************)
(* Identity resolution and tenure (checked under SpecPay)                  *)
(***************************************************************************)
\* The three identity candidates of an event, highest priority first.
Candidates(x) ==
  <<x.dollar_email, x.distinct_id_before_identity, x.distinct_id>>

ContainsAt(c) == ~IsNull(c) /\ \E i \in 1..Len(c) : c[i] = "@"

Resolvable(x) == \E k \in 1..3 : ContainsAt(Candidates(x)[k])

\* The first candidate that contains "@".
FirstWithAt(x) ==
  LET k == CHOOSE j \in 1..3 :
             /\ ContainsAt(Candidates(x)[j])
             /\ \A h \in 1..(j - 1) : ~ContainsAt(Candidates(x)[h])
  IN Candidates(x)[k]

\* The dates of the events that resolve to email e.
DatesOf(events, e) ==
  {ToDate(x.time) : x \in {y \in Range(events) : Resolvable(y) /\ FirstWithAt(y) = e}}
  \ {NaT}

\* C7: every email of pay1 is the first candidate with "@" of some payment
\* event (so it contains "@" and never comes from a lower-priority field when
\* a higher one qualifies), every resolvable event's email is in pay1, and a
\* customer's first and last payment and duration are those of the events
\* resolved to that email alone: an event without any "@" contributes to none.
C7_IdentityResolution ==
  pc = "spend" =>
    LET events == payment_api_export.rows
    IN /\ {pay1[i].Email : i \in 1..Len(pay1)}
            = {FirstWithAt(x) : x \in {y \in Range(events) : Resolvable(y)}}
       /\ \A i \in 1..Len(pay1) :
            LET D == DatesOf(events, pay1[i].Email)
                f == pay1[i].First_Payment
                l == pay1[i].Last_Payment
            IN /\ \E k \in 1..Len(pay1[i].Email) : pay1[i].Email[k] = "@"
               /\ \A j \in 1..Len(pay1) : pay1[j].Email = pay1[i].Email => j = i
               /\ IF D = {} THEN f = NaT /\ l = NaT
                  ELSE /\ f \in D /\ \A d \in D : DateKey(f) <= DateKey(d)
                       /\ l \in D /\ \A d \in D : DateKey(l) >= DateKey(d)
               /\ pay1[i].Duration_Months = months_since_first(f, today)

\* Reached: one event has no "@" anywhere, another resolves from the
\* pre-identity id although its raw distinct id holds a different email.
C7_Witness ==
  /\ pc = "spend"
  /\ \E x \in Range(payment_api_export.rows) : ~Resolvable(x)
  /\ \E x \in Range(payment_api_export.rows) :
       /\ ~ContainsAt(x.dollar_email)
       /\ ContainsAt(x.distinct_id_before_identity)
       /\ ContainsAt(x.distinct_id)
       /\ x.distinct_id # x.distinct_id_before_identity
       /\ \E i \in 1..Len(pay1) : pay1[i].Email = x.distinct_id_before_identity

\* C4 (as claimed): Duration_Months is never negative, and an absent first
\* payment date gives 0 instead of failing the run.
C4_DurationNeverNegative ==
  /\ pc = "spend" =>
       \A i \in 1..Len(pay1) :
         /\ pay1[i].Duration_Months >= 0
         /\ pay1[i].First_Payment = NaT => pay1[i].Duration_Months = 0
  /\ ~(pc \in {"crashed", "stopped"} /\ error = "pay" /\ today # NaT)

(***************************************************************************)
(* Tier assignment (checked under SpecTier)                                *)
(***************************************************************************)
\* The date d months before Today0, same day of the month.
MonthsBefore(d) ==
  LET m == Today0[1] * 12 + (Today0[2] - 1) - d
  IN <<m \div 12, (m % 12) + 1, Today0[3]>>

AtNine(date) == <<date[1], date[2], date[3], 9>>

MaxDuration == 25

\* Amounts per month, in cents, at and next to every threshold of assign_tier.
AmountGrid ==
  {0} \cup {t + e : t \in {3000, 6000, 8000, 12000, 18000, 30000}, e \in -1..1}

\* One customer whose first payment was d months ago and whose all-time
\* amount gives c cents per month.
InitTier ==
  \E d \in 0..MaxDuration, c \in AmountGrid :
    Loaded({Table(PayColumns, <<PayEvent(AtNine(MonthsBefore(d)), A_X, U1, U1)>>)},
           {Table(SpendColumns,
                  <<SpendRow(A_X, c * 10 * (IF d = 0 THEN 1 ELSE d))>>)},
           {Table(ContactColumns, <<>>)},
           {Table(UnpaidColumns, <<>>)})

NextTier ==
  \/ ProcessPaymentAPI
  \/ ProcessMixpanel
  \/ MergePayments
  \/ AssignTiers

SpecTier == InitTier /\ [][NextTier]_vars

\* pay_merged carries its Tier column.
Tiered ==
  \/ pc \in {"contacts", "final", "summary", "output", "done"}
  \/ pc \in {"stopped", "crashed"} /\ error \in {"contacts", "final"}

\* C3: every row with duration >= 0 and amount >= 0 has exactly the tier of
\* the first matching rule of the ordered table (amounts in cents).
C3_TierTable ==
  Tiered =>
    \A i \in 1..Len(pay_merged) :
      LET d == pay_merged[i].Duration_Months
          a == pay_merged[i].Amount_per_month
          t == pay_merged[i].Tier
          vip == d >= 24 /\ a >= 3000
          platinum == \/ d >= 12 /\ a > 12000
                      \/ d >= 6 /\ a > 18000
                      \/ d >= 3 /\ a > 30000
          gold == (d >= 6 /\ a > 8000) \/ (d >= 3 /\ a > 12000)
          silver == (d >= 6 /\ a >= 6000) \/ (d >= 3 /\ a > 8000)
      IN (d >= 0 /\ a >= 0) =>
           /\ t \in {"VIP", "Platinum", "Gold", "Silver", "Bronze"}
           /\ t = "VIP" <=> vip
           /\ t = "Platinum" <=> ~vip /\ platinum
           /\ t = "Gold" <=> ~vip /\ ~platinum /\ gold
           /\ t = "Silver" <=> ~vip /\ ~platinum /\ ~gold /\ silver
           /\ t = "Bronze" <=> ~vip /\ ~platinum /\ ~gold /\ ~silver
           /\ (d = 24 /\ a = 3000) => t = "VIP"
           /\ (d = 24 /\ a = 2999) => t # "VIP"
           /\ (d = 12 /\ a = 12000) => t # "Platinum"
           /\ (d = 12 /\ a = 12001) => t = "Platinum"

\* Reached: the boundary customer (24 months, 30.00 per month) is VIP.
C3_Witness ==
  /\ Tiered
  /\ \E i \in 1..Len(pay_merged) :
       /\ pay_merged[i].Duration_Months = 24
       /\ pay_merged[i].Amount_per_month = 3000
       /\ pay_merged[i].Tier = "VIP"

(***************************************************************************)
(* Merge of payment facts and spend facts (checked under SpecMerge)        *)
(***************************************************************************)
MaxSpendRows == 2

\* First payments today, last month, seven months ago and in the future.
MergeTimes ==
  {<<2026, 3, 15, 9>>, <<2026, 2, 20, 9>>, <<2025, 8, 15, 9>>, <<2026, 6, 20, 9>>}

\* All-time amounts in mills: 0, 10.005, 2.675, 100.000 and a hole.
MergeAmounts == {0, 10005, 2675, 100000, NumNaN}

InitMerge ==
  Loaded({Table(PayColumns, <<PayEvent(t, A_X, U1, U1)>>) : t \in MergeTimes},
         {Table(SpendColumns, r) :
            r \in SeqsUpTo({SpendRow(e, a) : e \in {A_X, B_X, NaN},
                                             a \in MergeAmounts}, MaxSpendRows)},
         {Table(ContactColumns, <<>>)},
         {Table(UnpaidColumns, <<>>)})

NextMerge ==
  \/ ProcessPaymentAPI
  \/ ProcessMixpanel
  \/ MergePayments

SpecMerge == InitMerge /\ [][NextMerge]_vars

\* pay_merged exists.
Merged ==
  \/ pc \in {"tier", "contacts", "final", "summary", "output", "done"}
  \/ pc \in {"stopped", "crashed"} /\ error \in {"tier", "contacts", "final"}

Abs(n) == IF n < 0 THEN -n ELSE n

\* C6 (amended): Amount_per_month is the all-time amount divided by
\* Duration_Months, rounded to 2 decimals, when Duration_Months > 0, and the
\* all-time amount rounded to 2 decimals when Duration_Months = 0.  (Rounded:
\* within half a cent; amounts in mills, Amount_per_month in cents.)
C6_AmountPerMonthRounded ==
  Merged =>
    \A i \in 1..Len(pay_merged) :
      LET d == pay_merged[i].Duration_Months
          a == pay_merged[i].A_Payment_all_time
          m == pay_merged[i].Amount_per_month
      IN /\ (d # NumNaN /\ d > 0) => 2 * Abs(m * 10 * d - a) <= 10 * d
         /\ d = 0 => 2 * Abs(m * 10 - a) <= 10

\* Reached: a customer of seven months with 100.00 all time has 14.29 per
\* month, and a customer of zero months has an amount that was rounded.
C6_Witness ==
  /\ Merged
  /\ \E i \in 1..Len(pay_merged) :
       /\ pay_merged[i].Duration_Months = 7
       /\ pay_merged[i].A_Payment_all_time = 100000
       /\ pay_merged[i].Amount_per_month = 1429
  /\ \E i \in 1..Len(pay_merged) :
       /\ pay_merged[i].Duration_Months = 0
       /\ pay_merged[i].Amount_per_month * 10 # pay_merged[i].A_Payment_all_time

\* C6 (as claimed): with Duration_Months = 0, Amount_per_month equals the
\* all-time amount exactly.
C6_AmountExactAtZero ==
  Merged =>
    \A i \in 1..Len(pay_merged) :
      LET d == pay_merged[i].Duration_Months
          a == pay_merged[i].A_Payment_all_time
          m == pay_merged[i].Amount_per_month
      IN /\ (d # NumNaN /\ d > 0) => 2 * Abs(m * 10 * d - a) <= 10 * d
         /\ d = 0 => m * 10 = a

\* C5 (as claimed): every spend email is retained by the right join, and
\* every row's Duration_Months is an integer >= 0, 0 where there are no
\* payment facts.
C5_DurationZeroWithoutPayments ==
  Merged =>
    /\ \A e \in {pay2[j].Email : j \in 1..Len(pay2)} :
         \E i \in 1..Len(pay_merged) : pay_merged[i].Email = e
    /\ \A i \in 1..Len(pay_merged) :
         /\ pay_merged[i].Duration_Months # NumNaN
         /\ pay_merged[i].Duration_Months >= 0
         /\ (\A j \in 1..Len(pay1) : pay1[j].Email # pay_merged[i].Email)
              => pay_merged[i].Duration_Months = 0

(***************************************************************************)
(* The three joins (checked under SpecJoin)                                *)
(***************************************************************************)
MaxJoinRows == 2

A_X_padded == <<" ">> \o A_X \o <<" ">>

InitJoin ==
  Loaded({Table(PayColumns, r) :
            r \in SeqsUpTo({PayEvent(<<2025, 9, 10, 9>>, e, U1, U1) : e \in {A_X, B_X}},
                           MaxJoinRows)},
         {Table(SpendColumns, r) :
            r \in SeqsUpTo({SpendRow(e, 45000) : e \in {A_X, C_X}}, MaxJoinRows)},
         {Table(ContactColumns, r) :
            r \in SeqsUpTo({ContactRow(A_X, P1234, NP),
                            ContactRow(A_X_padded, P5678, AE)}, MaxJoinRows)},
         {Table(UnpaidColumns, r) :
            r \in SeqsUpTo({UnpaidRow(e, P5678, AE) : e \in {A_X, C_X}}, MaxJoinRows)})

SpecJoin == InitJoin /\ [][Process]_vars

\* final_merged exists.
ReportReady == pc \in {"summary", "output", "done"}

SpendEmails ==
  {payment_mixpanel_export.rows[i].Email :
     i \in 1..Len(payment_mixpanel_export.rows)} \ {NaN, NA, None}

PaymentEmails ==
  {FirstWithAt(x) : x \in {y \in Range(payment_api_export.rows) : Resolvable(y)}}

\* C2: in every run that produces the final report, every email of the spend
\* export is the Email of exactly one row of the report, and an email that
\* occurs only in payment events is the Email of none.
C2_RightJoin ==
  ReportReady =>
    /\ \A e \in SpendEmails :
         Cardinality({i \in 1..Len(final_merged) : final_merged[i].Email = e}) = 1
    /\ \A e \in PaymentEmails \ SpendEmails :
         \A i \in 1..Len(final_merged) : final_merged[i].Email # e

\* Reached: a report from a spend export that repeats an email and holds one
\* without payments, payment events with an email the spend export lacks, and
\* unpaid signups that repeat the email they are joined on.
C2_Witness ==
  /\ ReportReady
  /\ Len(payment_mixpanel_export.rows) > Cardinality(SpendEmails)
  /\ SpendEmails \ PaymentEmails # {}
  /\ PaymentEmails \ SpendEmails # {}
  /\ \E i \in 1..Len(final_merged) : final_merged[i].Email \notin PaymentEmails
  /\ Len(unpaid_user_df.rows) = 2
  /\ unpaid_user_df.rows[1].dollar_email = unpaid_user_df.rows[2].dollar_email

(***************************************************************************)
(* Phone reconciliation (checked under SpecPhone)                          *)
(***************************************************************************)
UNDEFINED_uc == <<"U", "N", "D", "E", "F", "I", "N", "E", "D">>
None_str == <<"N", "o", "n", "e">>
nan_str == <<"n", "a", "n">>

PhoneCells ==
  {NaN, <<>>, <<" ">>, Undefined_lc, UNDEFINED_uc, None_str, nan_str,
   P1234, <<" ">> \o P1234 \o <<" ">>, P5678}

CountryCells == {NaN, NP, AE, Undefined_lc}

\* One customer a@x with a payment and a spend record, and at most one
\* contact and one unpaid signup for that email.
InitPhone ==
  Loaded({Table(PayColumns, <<PayEvent(<<2025, 9, 10, 9>>, A_X, U1, U1)>>)},
         {Table(SpendColumns, <<SpendRow(A_X, 45000)>>)},
         {Table(ContactColumns, r) :
            r \in {<<>>} \cup {<<ContactRow(A_X, p, c)>> :
                                 p \in PhoneCells, c \in CountryCells}},
         {Table(UnpaidColumns, r) :
            r \in {<<>>} \cup {<<UnpaidRow(A_X, p, c)>> :
                                 p \in PhoneCells, c \in CountryCells}})

SpecPhone == InitPhone /\ [][Process]_vars

UpperCase == <<"A", "D", "E", "F", "I", "N", "U">>
LowerCase == <<"a", "d", "e", "f", "i", "n", "u">>

LowerChar(c) ==
  IF \E k \in 1..Len(UpperCase) : UpperCase[k] = c
  THEN LowerCase[CHOOSE k \in 1..Len(UpperCase) : UpperCase[k] = c]
  ELSE c

Lower(s) == [i \in 1..Len(s) |-> LowerChar(s[i])]

\* A candidate is present: not null and, trimmed, not a sentinel ("",
\* "undefined" in any case, "none", "nan").
Present(v) ==
  /\ ~IsNull(v)
  /\ Lower(Strip(v)) \notin
       {<<>>, Undefined_lc, <<"n", "o", "n", "e">>, <<"n", "a", "n">>}

\* The CRM candidates of email e: the fields of its contact row, NaN when
\* the contacts hold no such email.
CrmRow(e) ==
  LET m == SelectRows(pipedrive_contacts.rows,
                      {r \in Range(pipedrive_contacts.rows) : r.Email = e})
  IN IF m = <<>> THEN NoContact ELSE Head(m)

\* The unpaid-signup candidates of email e.
UnpaidCandidates(e) ==
  LET m == SelectRows(unpaid_user_df.rows,
                      {r \in Range(unpaid_user_df.rows) : r.dollar_email = e})
  IN IF m = <<>> THEN NoUnpaid ELSE [PhoneNumber |-> Head(m).PhoneNumber,
                                     PhoneNumberCountry |-> Head(m).PhoneNumberCountry]

\* C1 (as claimed): in every row of the final report, each reconciled field
\* is the (trimmed) CRM candidate whenever that candidate is present.
C1_CrmPreferred ==
  ReportReady =>
    \A i \in 1..Len(final_merged) :
      LET crm == CrmRow(final_merged[i].Email)
      IN /\ Present(crm.Phone) => final_merged[i].Phone_Number = Strip(crm.Phone)
         /\ Present(crm.Phone_Country_Name) =>
              final_merged[i].Phone_Country = Strip(crm.Phone_Country_Name)

(***************************************************************************)
(* Tier summary (checked under SpecSummary)                                *)
(***************************************************************************)
MaxCustomers == 3

Customers == <<A_X, B_X, C_X, D_X>>

\* <<months since the first payment, cents per month>>, one for each tier.
TierSamples ==
  {<<24, 3000>>, <<12, 12001>>, <<6, 8001>>, <<6, 6000>>, <<0, 500>>}

\* Up to MaxCustomers customers, each with one payment event and one spend
\* record, in every assignment of the tier samples.
InitSummary ==
  \E k \in 0..Min(MaxCustomers, Len(Customers)) :
    \E f \in [1..k -> TierSamples] :
      Loaded({Table(PayColumns,
                    [j \in 1..k |->
                      PayEvent(AtNine(MonthsBefore(f[j][1])), Customers[j], U1, U1)])},
             {Table(SpendColumns,
                    [j \in 1..k |->
                      SpendRow(Customers[j],
                               f[j][2] * 10 * (IF f[j][1] = 0 THEN 1 ELSE f[j][1]))])},
             {Table(ContactColumns, BaseContacts)},
             {Table(UnpaidColumns, BaseUnpaid)})

SpecSummary == InitSummary /\ [][Process]_vars

\* tier_summary exists.
SummaryReady == pc \in {"output", "done"}

\* The place of a tier in VIP, Platinum, Gold, Silver, Bronze.
TierPlace(t) ==
  CASE t = "VIP" -> 1
    [] t = "Platinum" -> 2
    [] t = "Gold" -> 3
    [] t = "Silver" -> 4
    [] t = "Bronze" -> 5

\* C10: the summary has exactly one row for each tier of the final report and
\* none for a tier that does not occur, each count is the number of report
\* rows of that tier, and the rows are in the order VIP, Platinum, Gold,
\* Silver, Bronze.
C10_TierSummary ==
  SummaryReady =>
    LET occurring == {final_merged[i].Tier : i \in 1..Len(final_merged)}
    IN /\ {tier_summary[k].Tier : k \in 1..Len(tier_summary)} = occurring
       /\ Len(tier_summary) = Cardinality(occurring)
       /\ \A k \in 1..Len(tier_summary) :
            tier_summary[k].Number_of_Users =
              Cardinality({i \in 1..Len(final_merged) :
                             final_merged[i].Tier = tier_summary[k].Tier})
       /\ \A k, l \in 1..Len(tier_summary) :
            k < l => TierPlace(tier_summary[k].Tier) < TierPlace(tier_summary[l].Tier)

\* Reached: a report whose first row is Bronze, summarised as VIP (1 user)
\* then Bronze (2 users), the other tiers omitted.
C10_Witness ==
  /\ SummaryReady
  /\ Len(final_merged) = 3
  /\ final_merged[1].Tier = "Bronze"
  /\ Len(tier_summary) = 2
  /\ tier_summary[1].Tier = "VIP" /\ tier_summary[1].Number_of_Users = 1
  /\ tier_summary[2].Tier = "Bronze" /\ tier_summary[2].Number_of_Users = 2

(***************************************************************************)
(* Whole runs: acquisition failures and absent columns                     *)
(***************************************************************************)
Halted == pc \in {"stopped", "crashed"}

NothingProcessed ==
  /\ pay1 = <<>>
  /\ pay2 = <<>>
  /\ pay_merged = <<>>
  /\ pay_merged_contacts = <<>>
  /\ final_merged = <<>>
  /\ tier_summary = <<>>
  /\ shown = {}

\* The last acquisition failed: the uploads are missing, the request or the
\* read raised, or the response status is not 200.
AcquisitionFailed ==
  \/ error = "upload"
  \/ resp.raised
  \/ resp.status # 200

\* C8: when the acquisition of an input fails (a Mixpanel response with a
\* status other than 200, a raised request or read, missing uploads), the run
\* is halted at once: no processing stage has run and nothing is shown.
C8_AcquisitionFailureFatal ==
  AcquisitionFailed => Halted /\ NothingProcessed

\* C8's case: the first Mixpanel event was fetched, the second answered 500,
\* and the run stopped.
C8_Witness ==
  /\ variant = "app_copy"
  /\ resp.status = 500
  /\ error = "unpaid"
  /\ Len(payment_api_export.rows) > 0
  /\ pc = "stopped"

AllAcquired ==
  \/ pc \in {"pay", "spend", "merge", "tier", "contacts", "final", "summary",
             "output", "done"}
  \/ Halted /\ error \in {"pay", "spend", "tier", "contacts", "final"}

\* Required columns the inputs were delivered without.  (The contact stage
\* adds Phone_Country_Name to the contacts, which is no required column.)
AbsentColumns ==
  (PayColumns \ payment_api_export.cols)
  \cup (SpendColumns \ payment_mixpanel_export.cols)
  \cup (ContactColumns \ pipedrive_contacts.cols)
  \cup (UnpaidColumns \ unpaid_user_df.cols)

\* C9: a required column absent from an acquired input is no fatal error:
\* with all four inputs acquired and payment events present, a run whose
\* inputs lack a required column is never halted.
C9_AbsentColumnNotFatal ==
  (AllAcquired /\ AbsentColumns # {} /\ Len(payment_api_export.rows) > 0)
    => ~Halted

(***************************************************************************)
(* Sentinels of the phone reconciliation (checked under SpecPhone)         *)
(***************************************************************************)
\* C11 (as claimed): a candidate that, trimmed, is a sentinel ("", a blank,
\* "undefined" in any letter case, "none", "nan") counts as absent: in every
\* report row each reconciled field is a present value when one of its two
\* candidates is present, and null when both are absent.
C11_SentinelsAbsent ==
  ReportReady =>
    \A i \in 1..Len(final_merged) :
      LET crm == CrmRow(final_merged[i].Email)
          unp == UnpaidCandidates(final_merged[i].Email)
          number == final_merged[i].Phone_Number
          country == final_merged[i].Phone_Country
      IN /\ IF Present(crm.Phone) \/ Present(unp.PhoneNumber)
            THEN Present(number) ELSE IsNull(number)
         /\ IF Present(crm.Phone_Country_Name) \/ Present(unp.PhoneNumberCountry)
            THEN Present(country) ELSE IsNull(country)

(***************************************************************************)
(* Two customers compared (checked under SpecPair)                         *)
(***************************************************************************)
\* Months since the first payment: in the future, below 3, and at every
\* duration threshold of assign_tier.
PairDurations == {-2, 0, 1, 2, 3, 6, 12, 24}

\* The all-time amount, in mills, that gives c cents per month after d months.
AllTime(d, c) == c * 10 * (IF d > 0 THEN d ELSE 1)

\* Customer a@x has a payment history; customer b@x has one or has none (the
\* spend record alone).  Each has every amount per month of AmountGrid.
InitPair ==
  \E d1 \in PairDurations, c1 \in AmountGrid, c2 \in AmountGrid :
    \/ \E d2 \in PairDurations :
         Loaded({Table(PayColumns,
                       <<PayEvent(AtNine(MonthsBefore(d1)), A_X, U1, U1),
                         PayEvent(AtNine(MonthsBefore(d2)), B_X, U1, U1)>>)},
                {Table(SpendColumns,
                       <<SpendRow(A_X, AllTime(d1, c1)), SpendRow(B_X, AllTime(d2, c2))>>)},
                {Table(ContactColumns, <<>>)},
                {Table(UnpaidColumns, <<>>)})
    \/ Loaded({Table(PayColumns, <<PayEvent(AtNine(MonthsBefore(d1)), A_X, U1, U1)>>)},
              {Table(SpendColumns,
                     <<SpendRow(A_X, AllTime(d1, c1)), SpendRow(B_X, AllTime(0, c2))>>)},
              {Table(ContactColumns, <<>>)},
              {Table(UnpaidColumns, <<>>)})

SpecPair == InitPair /\ [][NextTier]_vars

\* C12: with Bronze < Silver < Gold < Platinum < VIP, of two customers with
\* non-negative durations and amounts per month, the one with no shorter
\* tenure and no lower amount per month has no lower tier.
C12_TierMonotone ==
  Tiered =>
    \A i, j \in 1..Len(pay_merged) :
      LET d1 == pay_merged[i].Duration_Months
          a1 == pay_merged[i].Amount_per_month
          d2 == pay_merged[j].Duration_Months
          a2 == pay_merged[j].Amount_per_month
      IN (d1 # NumNaN /\ d2 # NumNaN /\ 0 <= d1 /\ d1 <= d2 /\ 0 <= a1 /\ a1 <= a2)
           => TierPlace(pay_merged[i].Tier) >= TierPlace(pay_merged[j].Tier)

\* Reached: two customers with the same amount per month, 30.00, one of 12
\* months (Bronze) and one of 24 months (VIP).
C12_Witness ==
  /\ Tiered
  /\ \E i, j \in 1..Len(pay_merged) :
       /\ pay_merged[i].Duration_Months = 12
       /\ pay_merged[j].Duration_Months = 24
       /\ pay_merged[i].Amount_per_month = 3000
       /\ pay_merged[j].Amount_per_month = 3000
       /\ pay_merged[i].Tier = "Bronze"
       /\ pay_merged[j].Tier = "VIP"

\* The row's customer has no payment history: no row of pay1 has its Email.
NoPaymentHistory(row) == \A k \in 1..Len(pay1) : pay1[k].Email # row.Email

\* C13: every customer whose Duration_Months is below 3 is Bronze whatever the
\* amount per month, and so is every customer kept by the right join without
\* a payment history (the tenure missing), whatever the all-time amount.
C13_ShortTenureBronze ==
  Tiered =>
    \A i \in 1..Len(pay_merged) :
      LET d == pay_merged[i].Duration_Months
      IN /\ (d # NumNaN /\ d < 3) => pay_merged[i].Tier = "Bronze"
         /\ NoPaymentHistory(pay_merged[i]) =>
              /\ d \in {0, NumNaN}
              /\ pay_merged[i].Tier = "Bronze"

\* Reached: 300.01 per month after 2 months, and a spend record of 300.01
\* without any payment event, both Bronze.
C13_Witness ==
  /\ Tiered
  /\ \E i, j \in 1..Len(pay_merged) :
       /\ pay_merged[i].Duration_Months = 2
       /\ pay_merged[i].Amount_per_month = 30001
       /\ pay_merged[i].Tier = "Bronze"
       /\ NoPaymentHistory(pay_merged[j])
       /\ pay_merged[j].A_Payment_all_time = 300010
       /\ pay_merged[j].Amount_per_month = 30001
       /\ pay_merged[j].Tier = "Bronze"

====
